---- MODULE Spec2Model ----
(***************************************************************************)
(* Model of deepnote/notebooks/data_visualizations.py: six stateless chart *)
(* builders over a plotting engine.  A call takes a dataset and column     *)
(* selectors and either returns a figure or raises.  The state is the last *)
(* call made by a caller: which function, with which arguments, and what   *)
(* came back.                                                              *)
(***************************************************************************)
EXTENDS Integers, Sequences, FiniteSets, TLC

VARIABLES fn, args, result

vars == <<fn, args, result>>

(***************************************************************************)
(* Bounds of the input space.                                              *)
(***************************************************************************)
MaxTableRows == 2
MaxRows == 50
MaxGroups == 10
MaxCols == 3

(***************************************************************************)
(* Numbers the source fixes.                                               *)
(***************************************************************************)
TitleXTenths == 5
TitleFontSize == 15
BarMinHeight == 400
BarRowHeight == 30
BarPadding == 120
GridRowHeight == 300
GridWidth == 1200

None == "None"

Range(s) == {s[i] : i \in 1..Len(s)}

(***************************************************************************)
(* Datasets.  A tabular value has a kind, a set of column names and rows;  *)
(* a row gives every column a cell value.  "DataFrame" is the only kind    *)
(* isinstance(df, pd.DataFrame) accepts; a dict of columns and None are    *)
(* the values a caller may pass instead.                                   *)
(***************************************************************************)
ColNames == {"X", "A", "B"}
Values == {"Mexico", "Canada", "China"}

Table(kind, cols, rows) == [kind |-> kind, columns |-> cols, rows |-> rows]

NoneValue == Table("NoneType", {}, <<>>)

\* every column subset, one row
NarrowTables(kind) ==
    {Table(kind, cols, <<[c \in cols |-> "Mexico"]>>) : cols \in SUBSET ColNames}

\* rows a table is built from: the three uniform rows and one mixed row
RowPool ==
    {[c \in ColNames |-> v] : v \in Values}
        \cup {[c \in ColNames |-> IF c = "X" THEN "Mexico" ELSE "Canada"]}

SeqsUpTo(S, n) == UNION {[1..k -> S] : k \in 0..n}

SmallTables(kind) ==
    {Table(kind, ColNames, rows) : rows \in SeqsUpTo(RowPool, MaxTableRows)}

\* three rows, one per value, in each of the six orders
RankedTables ==
    {Table("DataFrame", ColNames, [i \in 1..3 |-> [c \in ColNames |-> p[i]]]) :
        p \in {q \in [1..3 -> Values] : Range(q) = Values}}

LongTables ==
    {Table("DataFrame", ColNames, [i \in 1..n |-> [c \in ColNames |-> "Mexico"]]) :
        n \in 0..MaxRows}

\* a panel: one row per (period, country) pair, the period in column X, the
\* country in the other columns; periods and countries are the first n values
ValueList == <<"Mexico", "Canada", "China">>

Panel(n_periods, n_countries) ==
    Table("DataFrame", ColNames,
          [i \in 1..(n_periods * n_countries) |->
              [c \in ColNames |->
                  IF c = "X" THEN ValueList[((i - 1) \div n_countries) + 1]
                  ELSE ValueList[((i - 1) % n_countries) + 1]]])

PanelTables == {Panel(p, k) : p \in 1..Len(ValueList), k \in 1..Len(ValueList)}

Datasets ==
    {NoneValue} \cup NarrowTables("DataFrame") \cup NarrowTables("dict")
        \cup SmallTables("DataFrame") \cup RankedTables \cup LongTables \cup PanelTables

GridDatasets == {d \in Datasets : Len(d.rows) <= 1}

IsDataFrame(df) == df.kind = "DataFrame"

\* df[c].tolist()
Column(df, c) == [i \in 1..Len(df.rows) |-> df.rows[i][c]]

(***************************************************************************)
(* Arguments.                                                              *)
(***************************************************************************)
\* y of plot_line, plot_scatter, plot_dumbbell: one name, or a list of names
\* (a str is held as its type tag and the one name)
YLists == {s \in SeqsUpTo(ColNames, 2) : Len(s) >= 1 /\ Cardinality(Range(s)) = Len(s)}
YArgs == {[type |-> "str", v |-> <<c>>] : c \in ColNames}
             \cup {[type |-> "list", v |-> s] : s \in YLists}

IsStr(y) == y.type = "str"

OptLabel(text) == {None, text}

\* groups of plot_line_grid: the first n group values, or one value twice
GroupName(i) == IF i <= Len(ValueList) THEN ValueList[i] ELSE ToString(i)

GroupLists ==
    {[i \in 1..n |-> GroupName(i)] : n \in 0..MaxGroups} \cup {<<"Mexico", "Mexico">>}

(***************************************************************************)
(* Outcomes of a call.                                                     *)
(***************************************************************************)
NoFigure == [none |-> TRUE]

Returned(fig) == [status |-> "returned", error |-> None, message |-> None, fig |-> fig]

Raised(kind, message) ==
    [status |-> "raised", error |-> kind, message |-> message, fig |-> NoFigure]

\* raise TypeError: df must be a pandas DataFrame
DataFrameTypeError == Raised("TypeError", [text |-> "df must be a pandas DataFrame"])

\* [col for col in cols if col not in df.columns]
MissingCols(cols, df) == SelectSeq(cols, LAMBDA c : c \notin df.columns)

\* raise ValueError(f"Missing columns in DataFrame: {missing_cols}")
MissingColumnsError(missing_cols) ==
    Raised("ValueError", [text |-> "Missing columns in DataFrame", names |-> missing_cols])

StrOf(y) == y.v[1]

\* y_cols = [y] if isinstance(y, str) else y
YCols(y) == IF IsStr(y) THEN <<StrOf(y)>> ELSE y.v

(***************************************************************************)
(* The title dict every update_layout of the first four functions passes.  *)
(***************************************************************************)
\* the title with its text alone, its position and font left to the engine
TitleTextOnly(title) == [text |-> title]

CenteredTitle(title) ==
    [text |-> title, x |-> TitleXTenths, xanchor |-> "center", yanchor |-> "top",
     font |-> [size |-> TitleFontSize]]

\* px.line / px.scatter: one trace per y column, axis titles from the column names
PxSeries(mode, x, y) ==
    [traces |-> [i \in 1..Len(YCols(y)) |-> [mode |-> mode, x |-> x, y |-> YCols(y)[i]]],
     xaxis_title |-> x,
     yaxis_title |-> IF IsStr(y) THEN StrOf(y) ELSE "value",
     legend_title |-> IF IsStr(y) THEN None ELSE "variable",
     title |-> [text |-> None]]

\* fig.update_layout(xaxis_title=..., yaxis_title=..., legend_title=..., title={...})
UpdateLabels(fig, x_label, y_label, legend_label, title) ==
    [fig EXCEPT !.xaxis_title = x_label, !.yaxis_title = y_label,
                !.legend_title = legend_label, !.title = CenteredTitle(title)]

\* fig.update_xaxes(title_text=x_label): the x-axis title of every facet
UpdateXaxes(fig, x_label) == [fig EXCEPT !.xaxis_title = x_label]

plot_line(df, x, y, x_label, y_label, legend_label, title) ==
    IF ~IsDataFrame(df) THEN DataFrameTypeError
    ELSE IF MissingCols(<<x>> \o YCols(y), df) # <<>>
         THEN MissingColumnsError(MissingCols(<<x>> \o YCols(y), df))
    ELSE Returned(UpdateLabels(PxSeries("lines", x, y), x_label, y_label, legend_label, title))

plot_scatter(df, x, y, x_label, y_label, legend_label, title) ==
    IF ~IsDataFrame(df) THEN DataFrameTypeError
    ELSE IF MissingCols(<<x>> \o YCols(y), df) # <<>>
         THEN MissingColumnsError(MissingCols(<<x>> \o YCols(y), df))
    ELSE Returned(UpdateXaxes(UpdateLabels(PxSeries("markers", x, y),
                                           x_label, y_label, legend_label, title),
                              x_label))

(***************************************************************************)
(* Sorting of cell values.                                                 *)
(***************************************************************************)
\* the order sort_values puts the cell values in
ValueOrder == <<"Canada", "China", "Mexico">>

ValueRank(v) == CHOOSE k \in 1..Len(ValueOrder) : ValueOrder[k] = v

\* where row i of rows goes when they are sorted by column x: after the rows of
\* lower value and after the earlier rows of the same value (the sort is stable)
SortedPosition(rows, i, x) ==
    Cardinality({j \in 1..Len(rows) :
                    \/ ValueRank(rows[j][x]) < ValueRank(rows[i][x])
                    \/ ValueRank(rows[j][x]) = ValueRank(rows[i][x]) /\ j <= i})

\* rows.sort_values(x)
SortValues(rows, x) ==
    [k \in 1..Len(rows) |-> rows[CHOOSE i \in 1..Len(rows) : SortedPosition(rows, i, x) = k]]

(***************************************************************************)
(* plot_dumbbell                                                           *)
(***************************************************************************)
\* for _, row in df.iterrows(): one grey connecting segment per row
SegmentTraces(df, x1, x2, y) ==
    [i \in 1..Len(df.rows) |->
        [mode |-> "lines", x |-> <<df.rows[i][x1], df.rows[i][x2]>>,
         y |-> <<df.rows[i][y], df.rows[i][y]>>, color |-> "grey", showlegend |-> FALSE]]

\* the marker series of one endpoint column
MarkerTrace(df, xcol, y, color) ==
    [mode |-> "markers", x |-> Column(df, xcol), y |-> Column(df, y),
     name |-> xcol, color |-> color]

\* yaxis=dict(type="category", categoryorder="array", categoryarray=y_categories, ...)
CategoryAxis(y_categories) ==
    [type |-> "category", categoryorder |-> "array", categoryarray |-> y_categories,
     tickmode |-> "array", tickvals |-> y_categories, ticktext |-> y_categories,
     showgrid |-> FALSE]

\* the y values sorted, as in sorted(df[y])
SortedCategories(df, y) ==
    LET count == [v \in Values |-> Cardinality({i \in 1..Len(df.rows) : df.rows[i][y] = v})]
    IN  [k \in 1..Len(df.rows) |->
            IF k <= count[ValueOrder[1]] THEN ValueOrder[1]
            ELSE IF k <= count[ValueOrder[1]] + count[ValueOrder[2]] THEN ValueOrder[2]
            ELSE ValueOrder[3]]

\* y_categories = df[y].tolist()
YCategories(df, y) == Column(df, y)

DumbbellFigure(df, x1, x2, y) ==
    [traces |-> SegmentTraces(df, x1, x2, y)
                    \o <<MarkerTrace(df, x1, y, "blue"), MarkerTrace(df, x2, y, "pink")>>,
     xaxis_title |-> None, yaxis_title |-> None, legend_title |-> None,
     title |-> [text |-> None],
     yaxis |-> CategoryAxis(YCategories(df, y))]

plot_dumbbell(df, x1, x2, y, x_label, y_label, legend_label, title) ==
    IF ~IsDataFrame(df) THEN DataFrameTypeError
    ELSE IF MissingCols(<<x1, x2>> \o YCols(y), df) # <<>>
         THEN MissingColumnsError(MissingCols(<<x1, x2>> \o YCols(y), df))
    \* df[y] with a list y is a DataFrame, which has no tolist
    ELSE IF ~IsStr(y)
         THEN Raised("AttributeError", [text |-> "DataFrame object has no attribute tolist"])
    ELSE Returned(UpdateLabels(DumbbellFigure(df, x1, x2, StrOf(y)),
                               x_label, y_label, legend_label, title))

(***************************************************************************)
(* plot_bar                                                                *)
(***************************************************************************)
Max(a, b) == IF a >= b THEN a ELSE b

\* the height without its floor of 400
BarHeightUnclamped(df) == BarRowHeight * Len(df.rows) + BarPadding

\* height = max(400, 30 * len(df) + 120)
BarHeight(df) == Max(BarMinHeight, BarRowHeight * Len(df.rows) + BarPadding)

\* raise ValueError(f"DataFrame must contain columns: {x} and {y}. Available columns: ...")
BarColumnsError(df, x, y) ==
    Raised("ValueError", [text |-> "DataFrame must contain columns", names |-> <<x, y>>,
                          available |-> df.columns])

\* px.bar(df, x=x, y=y, orientation=orientation, height=height)
PxBar(df, x, y, orientation, height) ==
    [traces |-> <<[mode |-> "bar", x |-> Column(df, x), y |-> Column(df, y),
                   orientation |-> orientation]>>,
     xaxis_title |-> x, yaxis_title |-> y, legend_title |-> None,
     title |-> [text |-> None], height |-> height]

\* yaxis=dict(categoryorder="total ascending"), xaxis=dict(showgrid=False)
BarAxes(fig) ==
    [k \in DOMAIN fig \cup {"yaxis", "xaxis"} |->
        IF k = "yaxis" THEN [categoryorder |-> "total ascending"]
        ELSE IF k = "xaxis" THEN [showgrid |-> FALSE]
        ELSE fig[k]]

plot_bar(df, x, y, orientation, x_label, y_label, legend_label, title) ==
    IF ~IsDataFrame(df) THEN DataFrameTypeError
    ELSE IF y \notin df.columns \/ x \notin df.columns THEN BarColumnsError(df, x, y)
    ELSE Returned(BarAxes(UpdateLabels(PxBar(df, x, y, orientation, BarHeight(df)),
                                       x_label, y_label, legend_label, title)))

(***************************************************************************)
(* plot_line_grid                                                          *)
(***************************************************************************)
\* group_data = df[df[group_col] == group].sort_values(x)
GroupData(df, group_col, group, x) ==
    [df EXCEPT !.rows = SortValues(SelectSeq(df.rows, LAMBDA r : r[group_col] = group), x)]

\* len(groups) // n_cols: the row count rounded down
NRowsFloor(n_groups, n_cols) == n_groups \div n_cols

\* math.ceil(len(groups) / n_cols), n_cols > 0
NRows(n_groups, n_cols) ==
    IF n_groups % n_cols = 0 THEN n_groups \div n_cols ELSE (n_groups \div n_cols) + 1

\* [""] * n
Blanks(n) == [i \in 1..n |-> ""]

\* subplot_titles = groups + [""] * (n_rows * n_cols - len(groups))
SubplotTitles(groups, n_rows, n_cols) == groups \o Blanks(n_rows * n_cols - Len(groups))

\* fig = make_subplots(rows=n_rows, cols=n_cols, subplot_titles=..., specs=...)
MakeSubplots(n_rows, n_cols, subplot_titles) ==
    [rows |-> n_rows, cols |-> n_cols, subplot_titles |-> subplot_titles,
     specs |-> [r \in 1..n_rows |-> [c \in 1..n_cols |-> [secondary_y |-> TRUE]]],
     traces |-> <<>>, yaxis_titles |-> <<>>, title |-> [text |-> None]]

\* i // n_cols: the row counted from 0
GridRowFromZero(i, n_cols) == i \div n_cols

\* row = i // n_cols + 1
GridRow(i, n_cols) == (i \div n_cols) + 1

\* col = i % n_cols + 1
GridCol(i, n_cols) == (i % n_cols) + 1

\* the engine takes a trace only into a cell of the grid
InGrid(fig, row, col) == row \in 1..fig.rows /\ col \in 1..fig.cols

\* fig.add_trace(trace, row=row, col=col, secondary_y=secondary_y)
AddTrace(fig, trace, row, col, secondary_y) ==
    [fig EXCEPT !.traces =
        Append(@, [t \in DOMAIN trace \cup {"row", "col", "secondary_y"} |->
                    IF t = "row" THEN row ELSE IF t = "col" THEN col
                    ELSE IF t = "secondary_y" THEN secondary_y ELSE trace[t]])]

\* a group trace that keeps its own legend entry
GroupTraceInLegend(group_data, x, ycol, color) ==
    [mode |-> "lines+markers", x |-> Column(group_data, x), y |-> Column(group_data, ycol),
     color |-> color]

\* go.Scatter(x=group_data[x], y=group_data[ycol], mode="lines+markers", showlegend=False)
GroupTrace(group_data, x, ycol, color) ==
    [mode |-> "lines+markers", x |-> Column(group_data, x), y |-> Column(group_data, ycol),
     color |-> color, showlegend |-> FALSE]

\* go.Scatter(x=[None], y=[None], mode="lines", line=dict(color=color), name=name)
PlaceholderTrace(name, color) ==
    [mode |-> "lines", x |-> <<None>>, y |-> <<None>>, color |-> color, name |-> name]

\* fig.update_yaxes(title_text=..., row=row, col=col, secondary_y=...), both axes
UpdateYaxes(fig, row, col, y1, y2) ==
    [fig EXCEPT !.yaxis_titles =
        Append(@, [row |-> row, col |-> col, primary |-> y1, secondary |-> y2])]

\* one pass of the body of: for i, group in enumerate(groups)
GroupStep(fig, df, x, y1, y2, group_col, group, row, col) ==
    UpdateYaxes(
        AddTrace(
            AddTrace(fig, GroupTrace(GroupData(df, group_col, group, x), x, y1, "blue"),
                     row, col, FALSE),
            GroupTrace(GroupData(df, group_col, group, x), x, y2, "red"), row, col, TRUE),
        row, col, y1, y2)

\* the loop from index i on; a raise ends it
RECURSIVE AddGroups(_, _, _, _, _, _, _, _)
AddGroups(fig, df, x, y1, y2, group_col, groups, i) ==
    IF i >= Len(groups) THEN Returned(fig)
    ELSE IF group_col \notin df.columns
         THEN Raised("KeyError", [text |-> "KeyError", names |-> <<group_col>>])
    ELSE IF ~InGrid(fig, GridRow(i, fig.cols), GridCol(i, fig.cols))
         THEN Raised("Exception", [text |-> "The (row, col) pair sent is out of range"])
    ELSE AddGroups(GroupStep(fig, df, x, y1, y2, group_col, groups[i + 1],
                             GridRow(i, fig.cols), GridCol(i, fig.cols)),
                   df, x, y1, y2, group_col, groups, i + 1)

\* the two legend placeholders, both in the first subplot
AddLegendTraces(fig, y1, y2) ==
    AddTrace(AddTrace(fig, PlaceholderTrace(y1, "blue"), 1, 1, FALSE),
             PlaceholderTrace(y2, "red"), 1, 1, TRUE)

\* fig.update_layout(height=300 * n_rows, width=1200, title_text=title, showlegend=True)
\* fig.update_layout(margin=dict(t=80, l=50, r=50, b=50))
GridLayout(fig, n_rows, title) ==
    [k \in DOMAIN fig \cup {"height", "width", "showlegend", "margin"} |->
        IF k = "height" THEN GridRowHeight * n_rows
        ELSE IF k = "width" THEN GridWidth
        ELSE IF k = "showlegend" THEN TRUE
        ELSE IF k = "margin" THEN [t |-> 80, l |-> 50, r |-> 50, b |-> 50]
        ELSE IF k = "title" THEN [text |-> title]
        ELSE fig[k]]

\* raise ValueError(f"DataFrame must contain columns: {x},{y1} and {y2}. Available ...")
GridColumnsError(df, x, y1, y2) ==
    Raised("ValueError", [text |-> "DataFrame must contain columns", names |-> <<x, y1, y2>>,
                          available |-> df.columns])

\* from the grid layout on (n_cols # 0)
GridFigure(df, x, y1, y2, group_col, groups, n_cols, title) ==
    LET n_rows == NRows(Len(groups), n_cols)
        grid == MakeSubplots(n_rows, n_cols, SubplotTitles(groups, n_rows, n_cols))
        looped == AddGroups(grid, df, x, y1, y2, group_col, groups, 0)
    IN  IF looped.status = "raised" THEN looped
        ELSE Returned(GridLayout(AddLegendTraces(looped.fig, y1, y2), n_rows, title))

plot_line_grid(df, x, y1, y2, group_col, groups, n_cols, title) ==
    IF ~IsDataFrame(df) THEN DataFrameTypeError
    ELSE IF y1 \notin df.columns \/ y2 \notin df.columns \/ x \notin df.columns
         THEN GridColumnsError(df, x, y1, y2)
    ELSE IF Len(groups) = 0
         THEN Raised("ValueError", [text |-> "No {group_col} to plot"])
    ELSE IF n_cols = 0
         THEN Raised("ZeroDivisionError", [text |-> "division by zero"])
    ELSE GridFigure(df, x, y1, y2, group_col, groups, n_cols, title)

(***************************************************************************)
(* plot_animated_scatter                                                   *)
(***************************************************************************)
\* the places of a sequence that hold a value for the first time
FirstPlaces(vals) == {i \in 1..Len(vals) : \A j \in 1..(i - 1) : vals[j] # vals[i]}

\* the distinct values of a sequence, in order of first appearance
Unique(vals) ==
    [k \in 1..Cardinality(FirstPlaces(vals)) |->
        vals[CHOOSE i \in FirstPlaces(vals) :
                Cardinality({j \in FirstPlaces(vals) : j <= i}) = k]]

\* the template the engine gives a trace it builds
PxHoverTemplate(x_col, y_col, color_col) ==
    [by |-> "px", hovertext |-> color_col, x |-> x_col, y |-> y_col, customdata |-> None]

\* hover_template = f"<b>%{hovertext}</b>...{x_col}: ...{y_col}: ...{animation_col}: ..."
HoverTemplate(x_col, y_col, animation_col) ==
    [by |-> "plot_animated_scatter", hovertext |-> "hovertext", x |-> x_col, y |-> y_col,
     customdata |-> animation_col]

\* the traces of the rows given: one per distinct value of color_col
PxTraces(rows, x_col, y_col, size_col, color_col) ==
    IF rows = <<>>
    THEN <<[name |-> "", x |-> <<>>, y |-> <<>>, size |-> <<>>,
            hovertemplate |-> PxHoverTemplate(x_col, y_col, color_col)]>>
    ELSE LET names == Unique([i \in 1..Len(rows) |-> rows[i][color_col]])
         IN  [k \in 1..Len(names) |->
                LET part == SelectSeq(rows, LAMBDA r : r[color_col] = names[k])
                IN  [name |-> names[k],
                     x |-> [i \in 1..Len(part) |-> part[i][x_col]],
                     y |-> [i \in 1..Len(part) |-> part[i][y_col]],
                     size |-> [i \in 1..Len(part) |-> part[i][size_col]],
                     hovertemplate |-> PxHoverTemplate(x_col, y_col, color_col)]]

\* one frame per distinct value of animation_col; a single frame is no animation
PxFrames(df, x_col, y_col, size_col, color_col, animation_col) ==
    LET steps == Unique(Column(df, animation_col))
    IN  IF Len(steps) <= 1 THEN <<>>
        ELSE [k \in 1..Len(steps) |->
                [name |-> steps[k],
                 data |-> PxTraces(SelectSeq(df.rows, LAMBDA r : r[animation_col] = steps[k]),
                                   x_col, y_col, size_col, color_col)]]

\* the engine's own answer to a column argument it cannot resolve: it names one
\* such argument and the columns it has
PxColumnErrors(df, cols) ==
    IF df.kind = "NoneType"
    THEN {Raised("ValueError", [text |-> "String or int arguments are only possible when a DataFrame or an array is provided",
                                names |-> <<>>, available |-> {}])}
    ELSE {Raised("ValueError", [text |-> "Value is not the name of a column in data_frame",
                                names |-> <<cols[i]>>, available |-> df.columns]) :
            i \in {j \in 1..Len(cols) : cols[j] \notin df.columns}}

\* fig = px.scatter(df, x=x_col, y=y_col, size=size_col, color=color_col,
\*                  animation_frame=animation_col, ..., title=title)
PxAnimatedScatter(df, x_col, y_col, size_col, color_col, title, animation_col) ==
    LET first == IF df.rows = <<>> THEN <<>>
                 ELSE SelectSeq(df.rows,
                                LAMBDA r : r[animation_col] = df.rows[1][animation_col])
    IN  [traces |-> PxTraces(first, x_col, y_col, size_col, color_col),
         frames |-> PxFrames(df, x_col, y_col, size_col, color_col, animation_col),
         xaxis_title |-> x_col, yaxis_title |-> y_col, legend_title |-> color_col,
         title |-> [text |-> title], template |-> "plotly_white"]

SetHoverTemplate(traces, hover_template) ==
    [i \in 1..Len(traces) |-> [traces[i] EXCEPT !.hovertemplate = hover_template]]

\* fig.update_traces(hovertemplate=hover_template)
UpdateTraces(fig, hover_template) ==
    [fig EXCEPT !.traces = SetHoverTemplate(@, hover_template)]

\* the frames left as the engine built them
KeepFrames(fig, hover_template) == fig

\* for frame in fig.frames: for trace in frame.data: trace.hovertemplate = hover_template
UpdateFrames(fig, hover_template) ==
    [fig EXCEPT !.frames =
        [k \in 1..Len(@) |-> [@[k] EXCEPT !.data = SetHoverTemplate(@, hover_template)]]]

\* the outcomes of a call: the engine decides which column it reports
plot_animated_scatter(df, x_col, y_col, size_col, color_col, title, animation_col) ==
    LET cols == <<x_col, y_col, size_col, color_col, animation_col>>
    IN  IF df.kind = "NoneType" \/ MissingCols(cols, df) # <<>>
        THEN PxColumnErrors(df, cols)
        ELSE {Returned(UpdateFrames(
                  UpdateTraces(
                      PxAnimatedScatter(df, x_col, y_col, size_col, color_col, title,
                                        animation_col),
                      HoverTemplate(x_col, y_col, animation_col)),
                  HoverTemplate(x_col, y_col, animation_col)))}

(***************************************************************************)
(* The caller.                                                             *)
(***************************************************************************)
Init ==
    /\ fn = "none"
    /\ args = [df |-> NoneValue]
    /\ result = [status |-> "idle", error |-> None, message |-> None, fig |-> NoFigure]

PlotLine ==
    /\ fn = "none"
    /\ \E df \in Datasets, x \in ColNames, y \in YArgs,
          x_label \in OptLabel("Year"), y_label \in OptLabel("Value"),
          legend_label \in OptLabel("Measure"), title \in OptLabel("Trade"):
        /\ fn' = "plot_line"
        /\ args' = [df |-> df, x |-> x, y |-> y, x_label |-> x_label, y_label |-> y_label,
                    legend_label |-> legend_label, title |-> title]
        /\ result' = plot_line(df, x, y, x_label, y_label, legend_label, title)

PlotScatter ==
    /\ fn = "none"
    /\ \E df \in Datasets, x \in ColNames, y \in YArgs,
          x_label \in OptLabel("Year"), y_label \in OptLabel("Value"),
          legend_label \in OptLabel("Measure"), title \in OptLabel("Trade"):
        /\ fn' = "plot_scatter"
        /\ args' = [df |-> df, x |-> x, y |-> y, x_label |-> x_label, y_label |-> y_label,
                    legend_label |-> legend_label, title |-> title]
        /\ result' = plot_scatter(df, x, y, x_label, y_label, legend_label, title)

PlotDumbbell ==
    /\ fn = "none"
    /\ \E df \in Datasets, x1 \in ColNames, x2 \in ColNames, y \in YArgs,
          x_label \in OptLabel("Year"), y_label \in OptLabel("Value"),
          legend_label \in OptLabel("Measure"), title \in OptLabel("Trade"):
        /\ fn' = "plot_dumbbell"
        /\ args' = [df |-> df, x1 |-> x1, x2 |-> x2, y |-> y, x_label |-> x_label,
                    y_label |-> y_label, legend_label |-> legend_label, title |-> title]
        /\ result' = plot_dumbbell(df, x1, x2, y, x_label, y_label, legend_label, title)

PlotBar ==
    /\ fn = "none"
    /\ \E df \in Datasets, x \in ColNames, y \in ColNames, orientation \in {"h", "v"},
          x_label \in OptLabel("Year"), y_label \in OptLabel("Value"),
          legend_label \in OptLabel("Measure"), title \in OptLabel("Trade"):
        /\ fn' = "plot_bar"
        /\ args' = [df |-> df, x |-> x, y |-> y, orientation |-> orientation,
                    x_label |-> x_label, y_label |-> y_label,
                    legend_label |-> legend_label, title |-> title]
        /\ result' = plot_bar(df, x, y, orientation, x_label, y_label, legend_label, title)

PlotLineGrid ==
    /\ fn = "none"
    /\ \E df \in GridDatasets, x \in ColNames, y1 \in ColNames, y2 \in ColNames,
          group_col \in ColNames, groups \in GroupLists, n_cols \in 0..MaxCols,
          title \in OptLabel("Trade"):
        /\ fn' = "plot_line_grid"
        /\ args' = [df |-> df, x |-> x, y1 |-> y1, y2 |-> y2, group_col |-> group_col,
                    groups |-> groups, n_cols |-> n_cols, title |-> title]
        /\ result' = plot_line_grid(df, x, y1, y2, group_col, groups, n_cols, title)

PlotAnimatedScatter ==
    /\ fn = "none"
    /\ \E df \in Datasets, x_col \in ColNames, y_col \in ColNames, size_col \in ColNames,
          color_col \in ColNames, title \in OptLabel("Trade"), animation_col \in ColNames:
        /\ fn' = "plot_animated_scatter"
        /\ args' = [df |-> df, x_col |-> x_col, y_col |-> y_col, size_col |-> size_col,
                    color_col |-> color_col, title |-> title,
                    animation_col |-> animation_col]
        /\ result' \in plot_animated_scatter(df, x_col, y_col, size_col, color_col, title,
                                             animation_col)

Next ==
    \/ PlotLine
    \/ PlotScatter
    \/ PlotDumbbell
    \/ PlotBar
    \/ PlotLineGrid
    \/ PlotAnimatedScatter

Spec == Init /\ [][Next]_vars

(***************************************************************************)
(* Properties.                                                             *)
(***************************************************************************)
Called == fn # "none"

ReturnedFigure == result.status = "returned"

\* the layout's legend is on, and a trace that does not say otherwise is in it
HasLegendEntry(fig, tr) ==
    fig.showlegend /\ (IF "showlegend" \in DOMAIN tr THEN tr.showlegend ELSE TRUE)

\* a field of a record, None when the record has no such field
Field(rec, k) == IF k \in DOMAIN rec THEN rec[k] ELSE None

\* the column names the call refers to
References ==
    CASE fn \in {"plot_line", "plot_scatter"} -> {args.x} \cup Range(args.y.v)
      [] fn = "plot_dumbbell" -> {args.x1, args.x2} \cup Range(args.y.v)
      [] fn = "plot_bar" -> {args.x, args.y}
      [] fn = "plot_line_grid" -> {args.x, args.y1, args.y2, args.group_col}
      [] fn = "plot_animated_scatter" ->
            {args.x_col, args.y_col, args.size_col, args.color_col, args.animation_col}
      [] OTHER -> {}

Missing == References \ args.df.columns

\* C1: every public function, given a dataset that is not a DataFrame, fails with
\* a type error and returns no figure.
C1_NonTabularIsTypeError ==
    (Called /\ ~IsDataFrame(args.df)) =>
        (result.status = "raised" /\ result.error = "TypeError" /\ result.fig = NoFigure)

\* C2: every public function, given a DataFrame that lacks a referenced column,
\* fails with a value error whose message lists exactly the missing names.
C2_MessageListsExactlyMissing ==
    (Called /\ IsDataFrame(args.df) /\ Missing # {}) =>
        /\ result.status = "raised"
        /\ result.error = "ValueError"
        /\ "names" \in DOMAIN result.message
        /\ Range(result.message.names) = Missing

\* C3: every call returns a figure, or fails with a type error (dataset not
\* tabular) or a value error (a referenced column absent), and with nothing else;
\* a failed call returns no figure.
C3_OnlyTwoErrorKinds ==
    Called =>
        \/ ReturnedFigure /\ result.fig # NoFigure
        \/ /\ result.status = "raised" /\ result.fig = NoFigure
           /\ result.error = "TypeError" /\ ~IsDataFrame(args.df)
        \/ /\ result.status = "raised" /\ result.fig = NoFigure
           /\ result.error = "ValueError" /\ IsDataFrame(args.df) /\ Missing # {}

\* the title is centred: x = 0.5, anchored center/top, font size 15
TitleIsCentered(fig) ==
    /\ DOMAIN fig.title = {"text", "x", "xanchor", "yanchor", "font"}
    /\ fig.title.x = 5 /\ fig.title.xanchor = "center" /\ fig.title.yanchor = "top"
    /\ fig.title.font = [size |-> 15]

\* the axis and legend titles are the labels of the call, absent when omitted
LabelsApplied(fig) ==
    /\ Field(fig, "xaxis_title") = Field(args, "x_label")
    /\ Field(fig, "yaxis_title") = Field(args, "y_label")
    /\ Field(fig, "legend_title") = Field(args, "legend_label")

\* C4 as stated: a successful call of every public function returns a figure with
\* a centred title, the axis titles of the labels and the legend title of the
\* legend label.
C4_EveryFigureStyled ==
    (Called /\ ReturnedFigure) => (TitleIsCentered(result.fig) /\ LabelsApplied(result.fig))

\* C4 amended: that holds of plot_line, plot_scatter, plot_dumbbell and plot_bar;
\* plot_line_grid and plot_animated_scatter set the title's text and nothing else
\* of the title.
C4_LabelledFunctionsStyled ==
    (Called /\ ReturnedFigure) =>
        /\ result.fig.title.text = args.title
        /\ fn \in {"plot_line", "plot_scatter", "plot_dumbbell", "plot_bar"} =>
              (TitleIsCentered(result.fig) /\ LabelsApplied(result.fig))
        /\ fn \in {"plot_line_grid", "plot_animated_scatter"} =>
              DOMAIN result.fig.title = {"text"}

C4_Witness ==
    /\ fn = "plot_bar" /\ ReturnedFigure
    /\ args.x_label = "Year" /\ args.y_label = None /\ args.title = "Trade"
    /\ result.fig.xaxis_title = "Year" /\ result.fig.yaxis_title = None
    /\ result.fig.title.text = "Trade"

\* a call of plot_line_grid whose columns all exist, with groups and a column count
GridCallValid ==
    /\ fn = "plot_line_grid"
    /\ IsDataFrame(args.df)
    /\ {args.x, args.y1, args.y2, args.group_col} \subseteq args.df.columns
    /\ Len(args.groups) > 0
    /\ args.n_cols >= 1

\* C5: the figure of plot_line_grid has one legend entry per series: every group
\* trace is out of the legend, and two placeholder traces, named y1 and y2 and both
\* in the first subplot, are in it.
C5_OneLegendEntryPerSeries ==
    (fn = "plot_line_grid" /\ ReturnedFigure) =>
        LET fig == result.fig
            n == Len(args.groups)
        IN  /\ Len(fig.traces) = 2 * n + 2
            /\ \A k \in 1..(2 * n) :
                  /\ "showlegend" \in DOMAIN fig.traces[k]
                  /\ fig.traces[k].showlegend = FALSE
            /\ {k \in 1..Len(fig.traces) : HasLegendEntry(fig, fig.traces[k])}
                  = {2 * n + 1, 2 * n + 2}
            /\ fig.traces[2 * n + 1].name = args.y1
            /\ fig.traces[2 * n + 2].name = args.y2
            /\ \A k \in {2 * n + 1, 2 * n + 2} :
                  fig.traces[k].row = 1 /\ fig.traces[k].col = 1

C5_Witness ==
    /\ fn = "plot_line_grid" /\ ReturnedFigure
    /\ Len(args.groups) = 5 /\ args.n_cols = 2 /\ args.y1 # args.y2
    /\ Cardinality({k \in 1..Len(result.fig.traces) :
                        HasLegendEntry(result.fig, result.fig.traces[k])}) = 2

\* C6: plot_line_grid lays the subplots out in n_cols columns and
\* ceiling(len(groups) / n_cols) rows (10 groups in 3 columns: 4 rows); the figure
\* is 300 * n_rows high and 1200 wide.
C6_GridShape ==
    GridCallValid =>
        /\ ReturnedFigure
        /\ LET fig == result.fig
               n == Len(args.groups)
           IN  /\ fig.cols = args.n_cols
               /\ fig.rows * args.n_cols >= n
               /\ (fig.rows - 1) * args.n_cols < n
               /\ (n = 10 /\ args.n_cols = 3) => fig.rows = 4
               /\ fig.height = 300 * fig.rows
               /\ fig.width = 1200

C6_Witness ==
    /\ GridCallValid /\ ReturnedFigure
    /\ Len(args.groups) = 10 /\ args.n_cols = 3
    /\ result.fig.rows = 4 /\ result.fig.height = 1200

\* C7: the y-axis of the figure of plot_dumbbell is categorical, its categories in
\* the order of the y column's values in the dataset's rows, not sorted.
C7_DumbbellKeepsRowOrder ==
    (fn = "plot_dumbbell" /\ ReturnedFigure) =>
        /\ result.fig.yaxis.type = "category"
        /\ result.fig.yaxis.categoryorder = "array"
        /\ result.fig.yaxis.categoryarray
              = [i \in 1..Len(args.df.rows) |-> args.df.rows[i][args.y.v[1]]]

C7_Witness ==
    /\ fn = "plot_dumbbell" /\ ReturnedFigure
    /\ [i \in 1..Len(args.df.rows) |-> args.df.rows[i][args.y.v[1]]]
          = <<"Mexico", "Canada", "China">>
    /\ result.fig.yaxis.categoryarray = <<"Mexico", "Canada", "China">>

\* C8: for a dataset of r rows that passes validation, plot_bar returns a figure
\* max(400, 30 * r + 120) high: 400 up to 9 rows, 30 * r + 120 from 10 rows on,
\* 1620 for 50 rows.
C8_BarHeight ==
    (fn = "plot_bar" /\ IsDataFrame(args.df) /\ {args.x, args.y} \subseteq args.df.columns) =>
        /\ ReturnedFigure
        /\ LET r == Len(args.df.rows)
               h == result.fig.height
           IN  /\ r <= 9 => h = 400
               /\ r >= 10 => h = 30 * r + 120
               /\ r = 50 => h = 1620
               /\ h >= 400 /\ h >= 30 * r + 120

C8_Witness ==
    /\ fn = "plot_bar" /\ ReturnedFigure
    /\ Len(args.df.rows) = 50 /\ result.fig.height = 1620

\* C9: in the figure of plot_animated_scatter every trace of every frame carries
\* the hover template of every base trace.
C9_FramesCarryHoverTemplate ==
    (fn = "plot_animated_scatter" /\ ReturnedFigure) =>
        LET fig == result.fig
        IN  \A b \in 1..Len(fig.traces), f \in 1..Len(fig.frames) :
                \A t \in 1..Len(fig.frames[f].data) :
                    fig.frames[f].data[t].hovertemplate = fig.traces[b].hovertemplate

C9_Witness ==
    /\ fn = "plot_animated_scatter" /\ ReturnedFigure
    /\ Len(result.fig.frames) >= 2
    /\ Len(result.fig.traces) >= 2
    /\ \E f \in 1..Len(result.fig.frames) : Len(result.fig.frames[f].data) >= 2

\* C10: in plot_line_grid the group at index i (from 0) gets two traces, the first
\* on the primary and the second on the secondary axis, in the cell
\* (i // n_cols + 1, i % n_cols + 1); the cell is in the grid, no two groups share a
\* cell, the groups fill the grid in list order, and there are n_rows * n_cols
\* subplot titles: the group names, then empty strings.
C10_GroupsFillGridInOrder ==
    GridCallValid =>
        /\ ReturnedFigure
        /\ LET fig == result.fig
               n == Len(args.groups)
               row(i) == (i \div args.n_cols) + 1
               col(i) == (i % args.n_cols) + 1
           IN  /\ Len(fig.traces) = 2 * n + 2
               /\ \A i \in 0..(n - 1) :
                     /\ fig.traces[2 * i + 1].row = row(i)
                     /\ fig.traces[2 * i + 1].col = col(i)
                     /\ fig.traces[2 * i + 1].secondary_y = FALSE
                     /\ fig.traces[2 * i + 1].color = "blue"
                     /\ fig.traces[2 * i + 2].row = row(i)
                     /\ fig.traces[2 * i + 2].col = col(i)
                     /\ fig.traces[2 * i + 2].secondary_y = TRUE
                     /\ fig.traces[2 * i + 2].color = "red"
                     /\ row(i) \in 1..fig.rows
                     /\ col(i) \in 1..fig.cols
               /\ \A i, j \in 0..(n - 1) :
                     i < j => \/ fig.traces[2 * i + 1].row < fig.traces[2 * j + 1].row
                              \/ /\ fig.traces[2 * i + 1].row = fig.traces[2 * j + 1].row
                                 /\ fig.traces[2 * i + 1].col < fig.traces[2 * j + 1].col
               /\ Len(fig.subplot_titles) = fig.rows * fig.cols
               /\ \A k \in 1..Len(fig.subplot_titles) :
                     fig.subplot_titles[k] = IF k <= n THEN args.groups[k] ELSE ""

C10_Witness ==
    /\ GridCallValid /\ ReturnedFigure
    /\ Len(args.groups) = 10 /\ args.n_cols = 3
    /\ result.fig.traces[19].row = 4 /\ result.fig.traces[19].col = 1
    /\ Len(result.fig.subplot_titles) = 12

====
